---- MODULE Spec2Model ----
(***************************************************************************)
(* Model of the search-result pipeline of grep_search.py:                  *)
(*   search()                    runs the engine, classifies its exit,     *)
(*                               parses `path:line:col:content` lines      *)
(*   search_for_haskell_defns()  plans and runs the definition sub-queries *)
(*   remove_similar_matches()    drops duplicate / adjacent matches        *)
(*   search_and_display()        glues them and presents the result        *)
(*                                                                         *)
(* Text is modelled as a sequence of characters (one-character strings),   *)
(* so that strip(), split() and int() are computed and not assumed.        *)
(***************************************************************************)
EXTENDS Integers, Sequences, FiniteSets, TLC

VARIABLES
    \* ---- remove_similar_matches applied to an arbitrary input
    f_matches,          \* the input list `matches`
    f_ignore,           \* the argument ignore_adjacents
    f_kept,             \* indices of the input matches that were yielded
    f_out,              \* the yielded matches, in order
    f_pc,               \* "idle" | "ready" | "done"
    \* ---- the parse of one raw line
    p_match,            \* a Match m
    p_line,             \* the raw line rendered from m
    p_result,           \* what the loop body of search() does with p_line
    p_pc,               \* "idle" | "match" | "line" | "parsed"
    \* ---- one run of GrepSearchCommand.search_and_display
    search_mode,        \* "plain" | "haskell"
    query,              \* the query text
    engine_name,        \* get_engine_name()
    pc,                 \* where the command is
    queries,            \* the planned searches: <<[label, pattern], ...>>
    sq,                 \* index in queries of the search being made
    completed_process,  \* what subprocess.run returned
    is_error,           \* "unset" | "yes" | "no": is_error of search()
    lines,              \* lines of `output` the loop has still to take
    line,               \* the line the loop took last
    line_act,           \* what it did with it: "none" | "skipped" | "yielded" | "raised"
    found,              \* the matches the searches yielded so far
    matches,            \* `matches` of search_and_display
    invoked,            \* indices of the searches whose process was started, in order
    parsed,             \* indices of the searches whose generator is exhausted
    shown,              \* the matches handed to the presentation
    outcome,            \* "none" | "no_results" | "presented" | "error"
    error               \* the exception that ended the command, and its search

fvars == <<f_matches, f_ignore, f_kept, f_out, f_pc>>
pvars == <<p_match, p_line, p_result, p_pc>>
svars == <<search_mode, query, engine_name, pc, queries, sq, completed_process,
           is_error, lines, line, line_act, found, matches, invoked, parsed,
           shown, outcome, error>>
vars == <<fvars, pvars, svars>>

(***************************************************************************)
(* Bounds of the model.                                                    *)
(***************************************************************************)
MaxLen == 4             \* longest input list given to the filter
MaxLineNr == 3          \* largest line number in a filter input
MaxStrLen == 2          \* longest path / content of a rendered match
MaxNr == 10             \* largest line number of a rendered match
MaxCol == 2             \* largest column number of a rendered match
MaxOutLines == 3        \* most lines of output of one engine run

Paths == {"a.py", "b.py"}

\* All sequences over S of length at most n.
SeqsUpTo(S, n) == UNION {[1..k -> S] : k \in 0..n}

(***************************************************************************)
(* Python text primitives.                                                 *)
(***************************************************************************)
\* The whitespace characters of the model's alphabet (str.strip, no argument).
Whitespace == {" ", "\n", "\t"}

Digits == <<"0", "1", "2", "3", "4", "5", "6", "7", "8", "9">>

IsDigit(c) == \E d \in 1..10 : Digits[d] = c

DigitVal(c) == (CHOOSE d \in 1..10 : Digits[d] = c) - 1

RECURSIVE LStrip(_)
LStrip(s) ==
    IF s # <<>> /\ Head(s) \in Whitespace THEN LStrip(Tail(s)) ELSE s

RECURSIVE RStrip(_)
RStrip(s) ==
    IF s # <<>> /\ s[Len(s)] \in Whitespace
    THEN RStrip(SubSeq(s, 1, Len(s) - 1))
    ELSE s

\* str.strip()
Strip(s) == RStrip(LStrip(s))

\* Index of the first occurrence of character c in s, 0 when there is none.
Find(s, c) ==
    IF \E i \in 1..Len(s) : s[i] = c
    THEN CHOOSE i \in 1..Len(s) : s[i] = c /\ \A j \in 1..(i - 1) : s[j] # c
    ELSE 0

\* str.split(sep, maxsplit) for a one-character separator; maxsplit < 0 is
\* "no limit".  The result always has at least one part.
RECURSIVE SplitMax(_, _, _)
SplitMax(s, sep, maxsplit) ==
    IF maxsplit = 0 \/ Find(s, sep) = 0
    THEN <<s>>
    ELSE <<SubSeq(s, 1, Find(s, sep) - 1)>>
         \o SplitMax(SubSeq(s, Find(s, sep) + 1, Len(s)), sep,
                     IF maxsplit < 0 THEN maxsplit ELSE maxsplit - 1)

\* str.split(sep)
Split(s, sep) == SplitMax(s, sep, -1)

\* str(n) for n >= 0
RECURSIVE Str(_)
Str(n) == IF n < 10 THEN <<Digits[n + 1]>> ELSE Str(n \div 10) \o <<Digits[(n % 10) + 1]>>

RECURSIVE DigitsValue(_)
DigitsValue(s) ==
    IF s = <<>> THEN 0 ELSE 10 * DigitsValue(SubSeq(s, 1, Len(s) - 1)) + DigitVal(s[Len(s)])

\* int(s) succeeds: over the model's alphabet (no sign, no underscore) that is
\* a non-empty run of digits, surrounding whitespace allowed.
IntOk(s) == Strip(s) # <<>> /\ \A i \in 1..Len(Strip(s)) : IsDigit(Strip(s)[i])

\* int(s), where IntOk(s)
ParseInt(s) == DigitsValue(Strip(s))

\* sep.join(parts)
RECURSIVE Join(_, _)
Join(sep, parts) ==
    IF parts = <<>> THEN <<>>
    ELSE IF Len(parts) = 1 THEN parts[1]
    ELSE parts[1] \o sep \o Join(sep, Tail(parts))

(***************************************************************************)
(* remove_similar_matches                                                  *)
(***************************************************************************)
Match(p, l, c, t) == [path |-> p, line_nr |-> l, col_nr |-> c, content |-> t]

\* prev_match = matches[i - 1]: the immediately preceding INPUT match.
PrevMatch_LastYielded(ms, i, kept) == ms[kept[Len(kept)]]
PrevMatch(ms, i, kept) == ms[i - 1]

\* The two `continue`s of the loop body: this_match is not yielded.
SkipsMatch_OnlyAdjacent(prev, this, ignore_adjacents) ==
    /\ this.path = prev.path
    /\ ignore_adjacents /\ this.line_nr = prev.line_nr + 1
SkipsMatch_AlwaysAdjacent(prev, this, ignore_adjacents) ==
    /\ this.path = prev.path
    /\ \/ this.line_nr = prev.line_nr
       \/ this.line_nr = prev.line_nr + 1
SkipsMatch_AnyPath(prev, this, ignore_adjacents) ==
    \/ this.line_nr = prev.line_nr
    \/ this.path = prev.path /\ ignore_adjacents /\ this.line_nr = prev.line_nr + 1
SkipsMatch(prev, this, ignore_adjacents) ==
    /\ this.path = prev.path
    /\ \/ this.line_nr = prev.line_nr
       \/ ignore_adjacents /\ this.line_nr = prev.line_nr + 1

\* for i in range(1, len(matches)): ... (0-based there, 1-based here), with
\* kept the indices yielded so far.
RECURSIVE FilterLoop(_, _, _, _)
FilterLoop(ms, ignore_adjacents, i, kept) ==
    IF i > Len(ms) THEN kept
    ELSE FilterLoop(ms, ignore_adjacents, i + 1,
                    IF SkipsMatch(PrevMatch(ms, i, kept), ms[i], ignore_adjacents)
                    THEN kept
                    ELSE Append(kept, i))

\* The indices of the input matches the generator yields, in yield order.
KeptIndices(ms, ignore_adjacents) ==
    IF ms = <<>> THEN <<>> ELSE FilterLoop(ms, ignore_adjacents, 2, <<1>>)

\* list(remove_similar_matches(matches, ignore_adjacents))
remove_similar_matches(ms, ignore_adjacents) ==
    [k \in 1..Len(KeptIndices(ms, ignore_adjacents)) |->
        ms[KeptIndices(ms, ignore_adjacents)[k]]]

(***************************************************************************)
(* The parse of one line of engine output (loop body of search()).         *)
(***************************************************************************)
\* render_location(match)
render_location(m) == Join(<<":">>, <<m.path, Str(m.line_nr), Str(m.col_nr)>>)

\* The engine's line for a match: path:line:col:content
RawLine(m) == render_location(m) \o <<":">> \o m.content

\* `if not line.strip(): continue`
LineIsBlank(raw) == Strip(raw) = <<>>

\* parts = line.split(":", 3)
LineParts_Unbounded(raw) == Split(raw, ":")
LineParts(raw) == SplitMax(raw, ":", 3)

\* path=parts[0].strip()
PathOf(parts) == Strip(parts[1])

\* The loop body on one line: skipped, a ValueError, or a yielded match.
ParseLine_SkipMalformed(raw) ==
    IF LineIsBlank(raw) \/ Len(LineParts(raw)) < 4 THEN [kind |-> "skip"]
    ELSE IF ~IntOk(LineParts(raw)[2]) \/ ~IntOk(LineParts(raw)[3])
         THEN [kind |-> "error", error |-> "invalid literal for int()"]
    ELSE [kind |-> "match",
          match |-> Match(PathOf(LineParts(raw)),
                          ParseInt(LineParts(raw)[2]),
                          ParseInt(LineParts(raw)[3]),
                          LineParts(raw)[4])]
ParseLine(raw) ==
    IF LineIsBlank(raw) THEN [kind |-> "skip"]
    ELSE IF Len(LineParts(raw)) < 4 THEN [kind |-> "error", error |-> "too few sections"]
    ELSE IF ~IntOk(LineParts(raw)[2]) \/ ~IntOk(LineParts(raw)[3])
         THEN [kind |-> "error", error |-> "invalid literal for int()"]
    ELSE [kind |-> "match",
          match |-> Match(PathOf(LineParts(raw)),
                          ParseInt(LineParts(raw)[2]),
                          ParseInt(LineParts(raw)[3]),
                          LineParts(raw)[4])]

(***************************************************************************)
(* Specification SpecFilter: remove_similar_matches on every input list.   *)
(***************************************************************************)
FilterMatches == {Match(p, l, 1, <<"x">>) : p \in Paths, l \in 1..MaxLineNr}

PIdle ==
    /\ p_match = Match(<<>>, 1, 1, <<>>)
    /\ p_line = <<>>
    /\ p_result = [kind |-> "none"]
    /\ p_pc = "idle"

NoProcess == [returncode |-> -1, stdout |-> <<>>, stderr |-> <<>>]

NoError == [kind |-> "none", sq |-> 0]

SIdle ==
    /\ search_mode = "plain"
    /\ query = <<>>
    /\ engine_name = "ripgrep"
    /\ pc = "idle"
    /\ queries = <<>>
    /\ sq = 0
    /\ completed_process = NoProcess
    /\ is_error = "unset"
    /\ lines = <<>>
    /\ line = <<>>
    /\ line_act = "none"
    /\ found = <<>>
    /\ matches = <<>>
    /\ invoked = <<>>
    /\ parsed = {}
    /\ shown = <<>>
    /\ outcome = "none"
    /\ error = NoError

FIdle ==
    /\ f_matches = <<>>
    /\ f_ignore = FALSE
    /\ f_kept = <<>>
    /\ f_out = <<>>
    /\ f_pc = "idle"

InitFilter ==
    /\ f_matches \in SeqsUpTo(FilterMatches, MaxLen)
    /\ f_ignore \in BOOLEAN
    /\ f_kept = <<>>
    /\ f_out = <<>>
    /\ f_pc = "ready"
    /\ PIdle
    /\ SIdle

ApplyFilter ==
    /\ f_pc = "ready"
    /\ f_kept' = KeptIndices(f_matches, f_ignore)
    /\ f_out' = remove_similar_matches(f_matches, f_ignore)
    /\ f_pc' = "done"
    /\ UNCHANGED <<f_matches, f_ignore, pvars, svars>>

NextFilter == ApplyFilter

SpecFilter == InitFilter /\ [][NextFilter]_vars

(***************************************************************************)
(* Properties of remove_similar_matches, stated on its input positions.    *)
(***************************************************************************)
FKeptSet == {f_kept[k] : k \in 1..Len(f_kept)}

\* Input matches i and j have the same path and the same line number.
SameLine(i, j) ==
    /\ f_matches[i].path = f_matches[j].path
    /\ f_matches[i].line_nr = f_matches[j].line_nr

\* Input match i is on the line after input match i - 1, in the same file.
NextLine(i) ==
    /\ f_matches[i].path = f_matches[i - 1].path
    /\ f_matches[i].line_nr = f_matches[i - 1].line_nr + 1

\* The rule of the contract: input match i is to be emitted.
ToEmit(i) == i = 1 \/ ~(SameLine(i - 1, i) \/ (f_ignore /\ NextLine(i)))

\* Input matches i..j are a run of consecutive lines of one file.
IsRun(i, j) == i < j /\ \A x \in (i + 1)..j : NextLine(x)

RunSurvivors(i, j) == Cardinality((i..j) \cap FKeptSet)

\* C1: the filter emits exactly, and in input order, the first match and each
\* later match that is not on the same line as (or, with ignore_adjacents, the
\* line after) the immediately preceding input match of the same path.
C1_FilterEmitsExactly ==
    f_pc = "done" =>
        /\ FKeptSet = {i \in 1..Len(f_matches) : ToEmit(i)}
        /\ \A k \in 1..(Len(f_kept) - 1) : f_kept[k] < f_kept[k + 1]
        /\ Len(f_out) = Len(f_kept)
        /\ \A k \in 1..Len(f_kept) : f_out[k] = f_matches[f_kept[k]]

\* C1 witness: a match is emitted after a dropped predecessor, although it is
\* on the same line as the last emitted match.
C1_Witness ==
    /\ f_pc = "done"
    /\ \E i \in 3..Len(f_matches) :
        /\ i \in FKeptSet /\ (i - 1) \notin FKeptSet /\ (i - 2) \in FKeptSet
        /\ SameLine(i - 2, i)

\* C2 as claimed: of two adjacent input matches with equal path and line
\* number exactly one is in the output.
C2_ExactlyOneOfPair ==
    f_pc = "done" =>
        \A i \in 1..(Len(f_matches) - 1) :
            SameLine(i, i + 1) => ((i \in FKeptSet) # ((i + 1) \in FKeptSet))

\* C2 amended: of two adjacent input matches with equal path and line number
\* the second is never in the output, and the first is in the output exactly
\* when it is the first input match or is not dropped against its own
\* predecessor; so at most one of the two survives.
C2_SecondOfPairDropped ==
    f_pc = "done" =>
        \A i \in 1..(Len(f_matches) - 1) :
            SameLine(i, i + 1) =>
                /\ (i + 1) \notin FKeptSet
                /\ (i \in FKeptSet) <=> ToEmit(i)

\* C2 witness: three equal matches in a row; of the last two none survives.
C2_Witness ==
    /\ f_pc = "done"
    /\ \E i \in 2..(Len(f_matches) - 1) :
        /\ SameLine(i - 1, i) /\ SameLine(i, i + 1)
        /\ i \notin FKeptSet /\ (i + 1) \notin FKeptSet /\ (i - 1) \in FKeptSet

\* C3 as claimed: a run of k matches on consecutive lines of one file leaves
\* exactly 1 survivor with ignore_adjacents and k survivors without, whatever
\* precedes the run.
C3_RunCollapses ==
    f_pc = "done" =>
        \A i \in 1..Len(f_matches) : \A j \in i..Len(f_matches) :
            IsRun(i, j) =>
                RunSurvivors(i, j) = IF f_ignore THEN 1 ELSE j - i + 1

\* C3 amended: in such a run every match after the first is dropped with
\* ignore_adjacents and kept without it, and the first match of the run is
\* kept exactly when it is the first input match or is not dropped against the
\* match before the run: 1 (resp. k) survivors then, 0 (resp. k - 1) otherwise.
C3_RunCollapsesAfterFirst ==
    f_pc = "done" =>
        \A i \in 1..Len(f_matches) : \A j \in i..Len(f_matches) :
            IsRun(i, j) =>
                /\ (i \in FKeptSet) <=> ToEmit(i)
                /\ \A x \in (i + 1)..j : (x \in FKeptSet) <=> ~f_ignore
                /\ RunSurvivors(i, j) =
                       (IF ToEmit(i) THEN 1 ELSE 0) + (IF f_ignore THEN 0 ELSE j - i)

\* C3 witness: a run of three lines after a match of another file collapses
\* to its first line.
C3_Witness ==
    /\ f_pc = "done" /\ f_ignore
    /\ \E i \in 2..Len(f_matches) :
        /\ i + 2 <= Len(f_matches)
        /\ IsRun(i, i + 2)
        /\ f_matches[i - 1].path # f_matches[i].path
        /\ RunSurvivors(i, i + 2) = 1

\* C10 as claimed: the output never holds two consecutive matches with the
\* same path and line number, for both values of ignore_adjacents.
C10_NoConsecutiveDuplicate ==
    f_pc = "done" =>
        \A k \in 1..(Len(f_out) - 1) :
            ~(f_out[k].path = f_out[k + 1].path /\ f_out[k].line_nr = f_out[k + 1].line_nr)

\* C10 amended: with ignore_adjacents = FALSE the output never holds two
\* consecutive matches with the same path and line number.
C10_NoConsecutiveDuplicatePlain ==
    (f_pc = "done" /\ ~f_ignore) =>
        \A k \in 1..(Len(f_out) - 1) :
            ~(f_out[k].path = f_out[k + 1].path /\ f_out[k].line_nr = f_out[k + 1].line_nr)

\* C10 witness: without ignore_adjacents a duplicate was dropped and the same
\* line is still twice in the output, apart.
C10_Witness ==
    /\ f_pc = "done" /\ ~f_ignore
    /\ Len(f_out) < Len(f_matches)
    /\ \E k \in 1..Len(f_out) : \E l \in (k + 2)..Len(f_out) :
        f_out[k].path = f_out[l].path /\ f_out[k].line_nr = f_out[l].line_nr

(***************************************************************************)
(* Specification SpecParse: a match rendered as a raw line and parsed.     *)
(***************************************************************************)
TextAlphabet == {"a", ":", " ", "\n"}

Texts == SeqsUpTo(TextAlphabet, MaxStrLen)

InitParse ==
    /\ p_match \in {Match(p, l, c, t) : p \in Texts, l \in 1..MaxNr, c \in 1..MaxCol, t \in Texts}
    /\ p_line = <<>>
    /\ p_result = [kind |-> "none"]
    /\ p_pc = "match"
    /\ FIdle
    /\ SIdle

Render ==
    /\ p_pc = "match"
    /\ p_line' = RawLine(p_match)
    /\ p_pc' = "line"
    /\ UNCHANGED <<p_match, p_result, fvars, svars>>

Parse ==
    /\ p_pc = "line"
    /\ p_result' = ParseLine(p_line)
    /\ p_pc' = "parsed"
    /\ UNCHANGED <<p_match, p_line, fvars, svars>>

NextParse == Render \/ Parse

SpecParse == InitParse /\ [][NextParse]_vars

(***************************************************************************)
(* search() and search_for_haskell_defns().                                *)
(***************************************************************************)
\* The characters a query is made of here: an uppercase and a lowercase
\* letter, a letter of a script without case ("U+4E2D" stands for that one
\* character), a digit, a symbol and a blank.
UppercaseLetters == {"F"}
LowercaseLetters == {"f", "o"}
UncasedLetters == {"U+4E2D"}

\* str.isalpha() of one character
IsAlpha(c) == c \in UppercaseLetters \cup LowercaseLetters \cup UncasedLetters

\* str.upper() of one character: only a lowercase letter changes.
Upper(c) == IF c = "f" THEN "F" ELSE IF c = "o" THEN "O" ELSE c

\* query[0].isalpha() and query[0].upper() == query[0]
StartsUpper(q) == IsAlpha(q[1]) /\ Upper(q[1]) = q[1]

\* The regular expressions, with the query interpolated; each literal piece
\* of a pattern is kept as one token.
first_constructor_query(q) == <<"(data|newtype) .+\\s* =\\s* ">> \o q \o <<"\\s">>
later_constructor_query(q) == <<"\\|\\s* ">> \o q \o <<"\\s">>

TypeQueries(q) ==
    << [label |-> "Module",
        pattern |-> <<"^module +(">> \o q \o <<")\\s">>],
       [label |-> "Type definition",
        pattern |-> <<"^(data|newtype|type)\\s+">> \o q \o <<"(\\s+[a-z]+)*\\s+(=|where)\\s">>],
       [label |-> "Class definition",
        pattern |-> <<"^class\\s+([a-zA-Z\\s.\\(\\),]+=>\\s+)?">> \o q \o <<"(\\s+[a-z]+)*\\s+where\\s">>],
       [label |-> "Constructor",
        pattern |-> <<"(">> \o first_constructor_query(q) \o <<")|(">>
                    \o later_constructor_query(q) \o <<")">>] >>

ValueQueries(q) ==
    << [label |-> "Value type",
        pattern |-> <<"^ *(">> \o q \o <<")\\s+::\\s+.">>],
       [label |-> "Value definition",
        pattern |-> <<"^ *(">> \o q \o <<")\\s+[^=$]*\\s=\\s">>],
       [label |-> "Record getter",
        pattern |-> <<" +[{,] +(">> \o q \o <<")\\s+::\\s+">>] >>

\* `queries` of search_for_haskell_defns, for a stripped non-empty query.
HaskellQueries(q) == IF StartsUpper(q) THEN TypeQueries(q) ELSE ValueQueries(q)

\* `if not query.strip(): return` of search()
QueryIsEmpty_NoStrip(q) == q = <<>>
QueryIsEmpty(q) == Strip(q) = <<>>

engines_needing_error_output == {"ripgrep", "the_platinum_searcher", "the_silver_searcher"}

\* is_error of search(); err is completed_process.stderr.strip()
IsError_ReturncodeOnly(engine, returncode, err) == returncode # 0
IsError(engine, returncode, err) ==
    IF engine \in engines_needing_error_output
    THEN returncode # 0 /\ err # <<>>
    ELSE returncode # 0

\* output.split("\n") with output = completed_process.stdout.strip()
OutputLines(stdout) == Split(Strip(stdout), "\n")

(***************************************************************************)
(* Specification Spec: one run of search_and_display, the search roots     *)
(* being resolved.                                                         *)
(***************************************************************************)
Engines == engines_needing_error_output \cup {"grep"}

Queries ==
    { <<>>, <<" ">>, <<" ", "F", " ">>, <<"f", "o">>, <<"U+4E2D">>, <<"_", "F">> }

\* Lines an engine may print: a match (its content holding a colon), a
\* whitespace-only line, and a line with too few colons.  (Empty output gives
\* the loop one empty line.)
EngineLines ==
    { <<"a", ":", "1", ":", "2", ":", "x", ":", "y">>,
      <<" ">>,
      <<"a", ":", "1", ":", "2">> }

RECURSIVE PrintLines(_)
PrintLines(ls) == IF ls = <<>> THEN <<>> ELSE Head(ls) \o <<"\n">> \o PrintLines(Tail(ls))

Stdouts == {PrintLines(ls) : ls \in SeqsUpTo(EngineLines, MaxOutLines)}

Stderrs == {<<>>, <<"\n">>, <<"e", "\n">>}

Returncodes == {0, 2}

Init ==
    /\ search_mode \in {"plain", "haskell"}
    /\ query \in Queries
    /\ engine_name \in Engines
    /\ pc = "start"
    /\ queries = <<>>
    /\ sq = 0
    /\ completed_process = NoProcess
    /\ is_error = "unset"
    /\ lines = <<>>
    /\ line = <<>>
    /\ line_act = "none"
    /\ found = <<>>
    /\ matches = <<>>
    /\ invoked = <<>>
    /\ parsed = {}
    /\ shown = <<>>
    /\ outcome = "none"
    /\ error = NoError
    /\ FIdle
    /\ PIdle

\* An exception leaves search_and_display: nothing is presented.
Raise_AndGoOn(e) ==
    /\ error' = [kind |-> e, sq |-> sq]
    /\ pc' = "parse"
    /\ outcome' = outcome
Raise(e) ==
    /\ error' = [kind |-> e, sq |-> sq]
    /\ pc' = "done"
    /\ outcome' = "error"

\* The generator of search() number sq is exhausted: the next search, or the
\* filter when it was the last.
FinishSearch ==
    /\ parsed' = parsed \cup {sq}
    /\ IF sq < Len(queries)
       THEN sq' = sq + 1 /\ pc' = "search"
       ELSE sq' = sq /\ pc' = "filter"

\* search_mode == 'plain': search(query, folders)
PlainSearch ==
    /\ pc = "start" /\ search_mode = "plain"
    /\ queries' = <<[label |-> "plain", pattern |-> query]>>
    /\ sq' = 1
    /\ pc' = "search"
    /\ UNCHANGED <<search_mode, query, engine_name, completed_process, is_error, lines,
                   line, line_act, found, matches, invoked, parsed, shown, outcome, error,
                   fvars, pvars>>

\* search_mode == 'haskell': search_for_haskell_defns up to its loop;
\* query[0] of an empty string raises IndexError.
HaskellPlan ==
    /\ pc = "start" /\ search_mode = "haskell"
    /\ IF Strip(query) = <<>>
       THEN /\ Raise("IndexError")
            /\ UNCHANGED <<queries, sq>>
       ELSE /\ queries' = HaskellQueries(Strip(query))
            /\ sq' = 1
            /\ pc' = "search"
            /\ UNCHANGED <<outcome, error>>
    /\ UNCHANGED <<search_mode, query, engine_name, completed_process, is_error, lines,
                   line, line_act, found, matches, invoked, parsed, shown, fvars, pvars>>

\* search() of an empty pattern returns at once.
SearchNothing ==
    /\ pc = "search"
    /\ QueryIsEmpty(queries[sq].pattern)
    /\ FinishSearch
    /\ UNCHANGED <<search_mode, query, engine_name, queries, completed_process, is_error,
                   lines, line, line_act, found, matches, invoked, shown, outcome, error,
                   fvars, pvars>>

\* subprocess.run(cmd, ...) is called, in a fresh frame of search().
RunProcess ==
    /\ pc = "search"
    /\ ~QueryIsEmpty(queries[sq].pattern)
    /\ invoked' = Append(invoked, sq)
    /\ completed_process' = NoProcess
    /\ is_error' = "unset"
    /\ line' = <<>>
    /\ line_act' = "none"
    /\ pc' = "running"
    /\ UNCHANGED <<search_mode, query, engine_name, queries, sq, lines, found, matches,
                   parsed, shown, outcome, error, fvars, pvars>>

\* The engine does not end within the timeout: subprocess.TimeoutExpired.
ProcessTimeout ==
    /\ pc = "running"
    /\ Raise("TimeoutExpired")
    /\ UNCHANGED <<search_mode, query, engine_name, queries, sq, completed_process,
                   is_error, lines, line, line_act, found, matches, invoked, parsed, shown,
                   fvars, pvars>>

\* The engine ends.
ProcessExits ==
    /\ pc = "running"
    /\ \E rc \in Returncodes, out \in Stdouts, err \in Stderrs :
        completed_process' = [returncode |-> rc, stdout |-> out, stderr |-> err]
    /\ pc' = "exited"
    /\ UNCHANGED <<search_mode, query, engine_name, queries, sq, is_error, lines, line,
                   line_act, found, matches, invoked, parsed, shown, outcome, error,
                   fvars, pvars>>

\* output, error = ...strip(); is_error; raise ValueError(error); the loop
\* over output.split("\n") begins.
CheckError ==
    /\ pc = "exited"
    /\ IF IsError(engine_name, completed_process.returncode, Strip(completed_process.stderr))
       THEN /\ is_error' = "yes"
            /\ Raise("ValueError")
            /\ UNCHANGED lines
       ELSE /\ is_error' = "no"
            /\ lines' = OutputLines(completed_process.stdout)
            /\ pc' = "parse"
            /\ UNCHANGED <<outcome, error>>
    /\ UNCHANGED <<search_mode, query, engine_name, queries, sq, completed_process, line,
                   line_act, found, matches, invoked, parsed, shown, fvars, pvars>>

\* One turn of `for line in output.split("\n")`: the line is skipped, raises
\* ValueError, or a match is yielded (and appended by the consumer).  The
\* locals returncode and error are not read any more.
TakeLine ==
    /\ pc = "parse"
    /\ lines # <<>>
    /\ line' = Head(lines)
    /\ lines' = Tail(lines)
    /\ completed_process' = NoProcess
    /\ is_error' = "unset"
    /\ \/ /\ ParseLine(Head(lines)).kind = "skip"
          /\ line_act' = "skipped"
          /\ UNCHANGED <<found, pc, outcome, error>>
       \/ /\ ParseLine(Head(lines)).kind = "error"
          /\ line_act' = "raised"
          /\ Raise("ValueError")
          /\ UNCHANGED found
       \/ /\ ParseLine(Head(lines)).kind = "match"
          /\ line_act' = "yielded"
          /\ found' = Append(found, ParseLine(Head(lines)).match)
          /\ UNCHANGED <<pc, outcome, error>>
    /\ UNCHANGED <<search_mode, query, engine_name, queries, sq, matches, invoked, parsed,
                   shown, fvars, pvars>>

\* The loop over the lines ends: the generator is exhausted.
EndOfOutput ==
    /\ pc = "parse"
    /\ lines = <<>>
    /\ FinishSearch
    /\ completed_process' = NoProcess
    /\ is_error' = "unset"
    /\ UNCHANGED <<search_mode, query, engine_name, queries, lines, line, line_act, found,
                   matches, invoked, shown, outcome, error, fvars, pvars>>

\* matches = list(remove_similar_matches(..., ignore_adjacents=...))
Filter ==
    /\ pc = "filter"
    /\ matches' = remove_similar_matches(found, search_mode = "haskell")
    /\ pc' = "display"
    /\ UNCHANGED <<search_mode, query, engine_name, queries, sq, completed_process,
                   is_error, lines, line, line_act, found, invoked, parsed, shown, outcome,
                   error, fvars, pvars>>

\* `if not matches: message_dialog('No results')`, else the list or the panel.
Display ==
    /\ pc = "display"
    /\ IF matches = <<>>
       THEN outcome' = "no_results" /\ shown' = shown
       ELSE outcome' = "presented" /\ shown' = matches
    /\ pc' = "done"
    /\ UNCHANGED <<search_mode, query, engine_name, queries, sq, completed_process,
                   is_error, lines, line, line_act, found, matches, invoked, parsed, error,
                   fvars, pvars>>

Next ==
    \/ PlainSearch
    \/ HaskellPlan
    \/ SearchNothing
    \/ RunProcess
    \/ ProcessTimeout
    \/ ProcessExits
    \/ CheckError
    \/ TakeLine
    \/ EndOfOutput
    \/ Filter
    \/ Display

Spec == Init /\ [][Next]_vars

(***************************************************************************)
(* Properties of the parse of one line.                                    *)
(***************************************************************************)
HasChar(s, c) == \E i \in 1..Len(s) : s[i] = c

Colons(s) == Cardinality({i \in 1..Len(s) : s[i] = ":"})

\* C6 as claimed: a match whose content holds no newline, rendered as
\* path:lineNr:colNr:content and parsed, is reconstructed in all four fields,
\* for every path.
C6_RoundTrip ==
    (p_pc = "parsed" /\ ~HasChar(p_match.content, "\n")) =>
        /\ p_result.kind = "match"
        /\ p_result.match = p_match

\* C6 amended: a match whose content holds no newline and whose path holds no
\* colon and no leading or trailing whitespace, rendered as
\* path:lineNr:colNr:content and parsed, is reconstructed in all four fields.
C6_RoundTripPlainPath ==
    (/\ p_pc = "parsed"
     /\ ~HasChar(p_match.content, "\n")
     /\ ~HasChar(p_match.path, ":")
     /\ Strip(p_match.path) = p_match.path) =>
        /\ p_result.kind = "match"
        /\ p_result.match = p_match

\* C6 witness: a match with a colon in its content, a blank inside its path
\* and a two-digit line number came back from the parse.
C6_Witness ==
    /\ p_pc = "parsed"
    /\ HasChar(p_match.content, ":")
    /\ Len(p_match.path) = MaxStrLen /\ Strip(p_match.path) = p_match.path
    /\ p_match.line_nr >= 10
    /\ p_result.kind = "match" /\ p_result.match = p_match

(***************************************************************************)
(* Properties of a run of search_and_display.                              *)
(***************************************************************************)
\* C4 as claimed: an invocation fails iff exit code # 0 and (for the engines
\* of the allow-list) stderr is non-empty; a failure yields no match.
C4_ErrorPolicy ==
    is_error # "unset" =>
        /\ (is_error = "yes") <=>
               IF engine_name \in {"ripgrep", "the_platinum_searcher", "the_silver_searcher"}
               THEN completed_process.returncode # 0 /\ completed_process.stderr # <<>>
               ELSE completed_process.returncode # 0
        /\ is_error = "yes" => (pc = "done" /\ outcome = "error" /\ shown = <<>>)
        /\ is_error = "no" => (pc = "parse" /\ lines = OutputLines(completed_process.stdout))

\* C4 amended: an invocation fails iff exit code # 0 and (for the engines of
\* the allow-list) stderr, stripped of surrounding whitespace, is non-empty;
\* a failure ends the command with no match presented, a success hands all of
\* the stripped stdout to the parse.
C4_ErrorPolicyStripped ==
    is_error # "unset" =>
        /\ (is_error = "yes") <=>
               IF engine_name \in {"ripgrep", "the_platinum_searcher", "the_silver_searcher"}
               THEN /\ completed_process.returncode # 0
                    /\ \E i \in 1..Len(completed_process.stderr) :
                           completed_process.stderr[i] \notin Whitespace
               ELSE completed_process.returncode # 0
        /\ is_error = "yes" =>
               /\ pc = "done" /\ outcome = "error" /\ shown = <<>>
               /\ error = [kind |-> "ValueError", sq |-> sq]
        /\ is_error = "no" => (pc = "parse" /\ lines = OutputLines(completed_process.stdout))

\* C4 witness: exit code 2 with empty stderr from an allow-listed engine is a
\* success whose output, holding a match line, goes to the parse.
C4_Witness ==
    /\ is_error = "no"
    /\ engine_name = "ripgrep"
    /\ completed_process.returncode = 2 /\ completed_process.stderr = <<>>
    /\ pc = "parse"
    /\ \E k \in 1..Len(lines) : ParseLine(lines[k]).kind = "match"

\* C5: in definition mode the sub-queries' processes are started in plan
\* order, each at most once, the next only when the one before has ended and
\* its output is parsed to the end; after a failure of sub-query i no later
\* sub-query is started and nothing is presented.
C5_SequentialSubQueries ==
    search_mode = "haskell" =>
        /\ \A k \in 1..Len(invoked) : invoked[k] = k
        /\ Len(invoked) <= Len(queries)
        /\ \A k \in 1..(Len(invoked) - 1) : k \in parsed
        /\ pc \in {"running", "exited", "parse"} =>
               (Len(invoked) = sq /\ sq \notin parsed)
        /\ error.kind # "none" =>
               /\ \A k \in 1..Len(invoked) : invoked[k] <= error.sq
               /\ error.sq \notin parsed
               /\ shown = <<>> /\ outcome = "error" /\ pc = "done"

\* C5 witness: the first sub-query yielded a match, the second failed, the
\* last two were never started and nothing was presented.
C5_Witness ==
    /\ search_mode = "haskell"
    /\ Len(queries) = 4
    /\ error.kind = "TimeoutExpired" /\ error.sq = 2
    /\ invoked = <<1, 2>>
    /\ found # <<>>
    /\ shown = <<>>

\* C7 as claimed: every output line with fewer than 3 colons raises; it is
\* never skipped, and no match is presented.
C7_FewColonsRaise ==
    (line_act # "none" /\ Colons(line) < 3) =>
        /\ line_act = "raised"
        /\ pc = "done" /\ outcome = "error" /\ shown = <<>>

\* C7 amended: every output line with fewer than 3 colons that is not empty
\* or whitespace-only raises ValueError, is not skipped, and no match is
\* presented; an empty or whitespace-only line is skipped without failure.
C7_FewColonsRaiseUnlessBlank ==
    (line_act # "none" /\ Colons(line) < 3) =>
        IF \A i \in 1..Len(line) : line[i] \in Whitespace
        THEN line_act = "skipped" /\ error.kind = "none"
        ELSE /\ line_act = "raised"
             /\ error = [kind |-> "ValueError", sq |-> sq]
             /\ pc = "done" /\ outcome = "error" /\ shown = <<>>

\* C7 witness: a line with two colons raised after a match and a blank line
\* of the same output, and nothing was presented.
C7_Witness ==
    /\ line_act = "raised"
    /\ Colons(line) = 2
    /\ found # <<>>
    /\ sq \notin parsed
    /\ pc = "done" /\ outcome = "error" /\ shown = <<>>

Labels(qs) == [k \in 1..Len(qs) |-> qs[k].label]

\* C8: the plan of a definition search is Module, Type definition, Class
\* definition, Constructor when the first character of the trimmed query is
\* an uppercase letter, and Value type, Value definition, Record getter for
\* every other first character.
C8_PlanByFirstCharacter ==
    (search_mode = "haskell" /\ queries # <<>>) =>
        Labels(queries) =
            IF Strip(query)[1] \in UppercaseLetters
            THEN <<"Module", "Type definition", "Class definition", "Constructor">>
            ELSE <<"Value type", "Value definition", "Record getter">>

\* C9: a query that is empty after trimming never starts the process; a plain
\* search of it ends in "no results" with nothing presented and no failure,
\* a definition search of it ends in a failure.
C9_EmptyQuery ==
    (pc # "idle" /\ \A i \in 1..Len(query) : query[i] \in Whitespace) =>
        /\ invoked = <<>>
        /\ pc \notin {"running", "exited", "parse"}
        /\ pc = "done" =>
               IF search_mode = "plain"
               THEN outcome = "no_results" /\ error.kind = "none" /\ shown = <<>>
               ELSE outcome = "error" /\ error.kind = "IndexError"

\* C9 witness: a plain search of a whitespace-only query has ended.
C9_Witness ==
    /\ pc = "done"
    /\ query = <<" ">>
    /\ search_mode = "plain"
    /\ outcome = "no_results"

====
